---- MODULE Spec2Model ----
(***************************************************************************)
(* CryptoCoarseFundamentalUniverseSelectionAlgorithm: the algorithm's      *)
(* Initialize, its UniverseSelectionFilter callback and its                *)
(* OnSecuritiesChanged handler, driven by the engine one call at a time.   *)
(***************************************************************************)
EXTENDS Integers, Sequences, FiniteSets

VARIABLES
    phase,      \* position of the single engine thread
    universes,  \* number of universes AddUniverse has registered
    history,    \* sizes of the snapshots self.History(universe, 2 days) returns
    raised,     \* message of the ValueError Initialize raised, "" if none
    data,       \* snapshot handed to UniverseSelectionFilter
    result,     \* list UniverseSelectionFilter returned for data
    earlier,    \* an earlier invocation of the filter: its snapshot and result
    changes,    \* descriptor handed to OnSecuritiesChanged
    returned,   \* kind of value the last handler returned
    log         \* entries written with self.Log

vars == <<phase, universes, history, raised, data, result, earlier, changes, returned, log>>

----------------------------------------------------------------------------
(* Program constants *)

MinVolume == 100
MinVolumeInUsd == 10000
TopCount == 10
ExpectedHistoryCount == 2
MinHistorySize == 100

(* Bounds of the model *)

MaxLen == 11        \* longest snapshot the filter is checked on
MaxVar == 2         \* records of such a snapshot that differ from the common one
MaxStepLen == 2     \* longest snapshot of a time step of the whole run
MaxLog == 2         \* log entries of a run
MaxHistory == 3     \* most snapshots a history request returns

----------------------------------------------------------------------------
(* Candidate records and the snapshots the engine delivers *)

Datum(s, v, u) == [Symbol |-> s, Volume |-> v, VolumeInUsd |-> u]

\* (Volume, VolumeInUsd) of the common record: passes, volume on its threshold
CommonMetrics == <<MinVolume, MinVolumeInUsd + 1>>

\* the other records: below the volume threshold, on the usd threshold,
\* and one that passes with a larger usd volume
OtherMetrics ==
    { <<MinVolume - 1, MinVolumeInUsd + 2>>,
      <<MinVolume + 1, MinVolumeInUsd>>,
      <<MinVolume + 1, MinVolumeInUsd + 2>> }

\* n records, those at the positions of f taking f's metrics; symbols are
\* numbered along the snapshot, or against it when rev
Snapshot(n, f, rev) ==
    [i \in 1..n |->
        LET m == IF i \in DOMAIN f THEN f[i] ELSE CommonMetrics
        IN  Datum(IF rev THEN n + 1 - i ELSE i, m[1], m[2])]

\* the snapshots of at most len records of which at most var are other ones
Snapshots(len, var) ==
    UNION { UNION { { Snapshot(n, f, rev) : f \in [P -> OtherMetrics], rev \in BOOLEAN }
                    : P \in { Q \in SUBSET (1..n) : Cardinality(Q) <= var } }
            : n \in 0..len }

StepMetrics ==
    { CommonMetrics,
      <<MinVolume + 1, MinVolumeInUsd>>,
      <<MinVolume + 1, MinVolumeInUsd + 2>> }

StepSnapshots ==
    UNION { { [i \in 1..n |-> Datum(i, m[i][1], m[i][2])] : m \in [1..n -> StepMetrics] }
            : n \in 0..MaxStepLen }

----------------------------------------------------------------------------
(* UniverseSelectionFilter *)

\* the usd threshold taken as inclusive
PassesFromThreshold(datum) ==
    datum.Volume >= MinVolume /\ datum.VolumeInUsd >= MinVolumeInUsd

\* either condition taken as enough
PassesEither(datum) ==
    datum.Volume >= MinVolume \/ datum.VolumeInUsd > MinVolumeInUsd

Passes(datum) ==
    datum.Volume >= MinVolume /\ datum.VolumeInUsd > MinVolumeInUsd

filtered(d) == SelectSeq(d, Passes)

\* the sort without reverse=True
InsertAscending(s, x) ==
    LET k == Cardinality({ i \in 1..Len(s) : s[i].VolumeInUsd <= x.VolumeInUsd })
    IN  SubSeq(s, 1, k) \o <<x>> \o SubSeq(s, k + 1, Len(s))

\* an ascending sort reversed afterwards: ties come out in reverse input order
InsertBeforeTies(s, x) ==
    LET k == Cardinality({ i \in 1..Len(s) : s[i].VolumeInUsd > x.VolumeInUsd })
    IN  SubSeq(s, 1, k) \o <<x>> \o SubSeq(s, k + 1, Len(s))

\* the sort keyed on (VolumeInUsd, Symbol): ties come out in symbol order
InsertBySymbol(s, x) ==
    LET ahead(y) == \/ y.VolumeInUsd > x.VolumeInUsd
                    \/ (y.VolumeInUsd = x.VolumeInUsd /\ y.Symbol < x.Symbol)
        k == Cardinality({ i \in 1..Len(s) : ahead(s[i]) })
    IN  SubSeq(s, 1, k) \o <<x>> \o SubSeq(s, k + 1, Len(s))

\* sorted(..., reverse=True) is stable: x joins the sorted elements behind
\* every element whose key is at least its own
InsertDescending(s, x) ==
    LET k == Cardinality({ i \in 1..Len(s) : s[i].VolumeInUsd >= x.VolumeInUsd })
    IN  SubSeq(s, 1, k) \o <<x>> \o SubSeq(s, k + 1, Len(s))

RECURSIVE sorted(_)
sorted(s) ==
    IF s = <<>> THEN <<>>
    ELSE InsertDescending(sorted(SubSeq(s, 1, Len(s) - 1)), s[Len(s)])

\* the [:10] left out
SliceAll(s) == s

Slice(s) == SubSeq(s, 1, IF Len(s) < TopCount THEN Len(s) ELSE TopCount)

\* the [:10] taken before the sort
sorted_after_slice(f) == sorted(Slice(f))

sorted_by_volume_in_usd(f) == Slice(sorted(f))

\* a filter that reads the algorithm's state: it stops selecting once the log
\* has an entry
UniverseSelectionFilterStateful(d) ==
    LET top == IF log = <<>> THEN sorted_by_volume_in_usd(filtered(d)) ELSE <<>>
    IN  [i \in 1..Len(top) |-> top[i].Symbol]

UniverseSelectionFilter(d) ==
    LET top == sorted_by_volume_in_usd(filtered(d))
    IN  [i \in 1..Len(top) |-> top[i].Symbol]

----------------------------------------------------------------------------
(* SecurityChanges and its text *)

NoChanges == [Added |-> <<>>, Removed |-> <<>>]

ChangesSet ==
    { NoChanges,
      [Added |-> <<"BTCUSD", "ETHUSD">>, Removed |-> <<"LTCUSD">>] }

ToString(c) ==
    IF c.Added = <<>> /\ c.Removed = <<>>
    THEN <<"SecurityChanges:", "None">>
    ELSE <<"SecurityChanges:">>
         \o (IF c.Added = <<>> THEN <<>> ELSE <<"Added:">> \o c.Added)
         \o (IF c.Removed = <<>> THEN <<>> ELSE <<"Removed:">> \o c.Removed)

----------------------------------------------------------------------------
(* Initialize *)

Histories ==
    UNION { [1..n -> {MinHistorySize - 1, MinHistorySize, MinHistorySize + 1}]
            : n \in 1..MaxHistory }

\* the snapshot sizes checked before the snapshot count
HistoryErrorSizeFirst(h) ==
    IF \E i \in 1..Len(h) : h[i] < MinHistorySize
    THEN "Unexpected historical universe data"
    ELSE IF Len(h) # ExpectedHistoryCount THEN "Unexpected history count"
         ELSE ""

HistoryError(h) ==
    IF Len(h) # ExpectedHistoryCount THEN "Unexpected history count"
    ELSE IF \E i \in 1..Len(h) : h[i] < MinHistorySize
         THEN "Unexpected historical universe data"
         ELSE ""

NoInvocation == [called |-> FALSE, data |-> <<>>, result |-> <<>>, logged |-> 0]

Init ==
    /\ phase = "new"
    /\ universes = 0
    /\ history \in Histories
    /\ raised = ""
    /\ data = <<>>
    /\ result = <<>>
    /\ earlier = NoInvocation
    /\ changes = NoChanges
    /\ returned = "nothing"
    /\ log = <<>>

Initialize ==
    /\ phase = "new"
    /\ universes' = universes + 1
    /\ raised' = HistoryError(history)
    /\ IF HistoryError(history) = ""
       THEN phase' = "ready" /\ returned' = "None"
       ELSE phase' = "failed" /\ returned' = "ValueError"
    /\ UNCHANGED <<history, data, result, earlier, changes, log>>

----------------------------------------------------------------------------
(* The engine's calls *)

Idle == phase \in {"ready", "selected", "notified"}

\* moving on from a selection, the invocation that made it may be kept for
\* comparison with a later one
Remember ==
    IF phase = "selected"
    THEN earlier' \in { earlier,
                        [called |-> TRUE, data |-> data, result |-> result,
                         logged |-> Len(log)] }
    ELSE earlier' = earlier

\* the engine evaluates the universe: a snapshot of S is on its way to the filter
NewTimeStep(S) ==
    /\ Idle
    /\ \E d \in S : data' = d
    /\ result' = <<>>
    /\ phase' = "select"
    /\ Remember
    /\ UNCHANGED <<universes, history, raised, changes, returned, log>>

CallUniverseSelectionFilter ==
    /\ phase = "select"
    /\ result' = UniverseSelectionFilter(data)
    /\ returned' = "list"
    /\ phase' = "selected"
    /\ UNCHANGED <<universes, history, raised, data, earlier, changes, log>>

\* the active universe changed: a descriptor is on its way to the handler
SecuritiesChanged ==
    /\ Idle
    /\ Len(log) < MaxLog
    /\ \E c \in ChangesSet : changes' = c
    /\ phase' = "notify"
    /\ Remember
    /\ UNCHANGED <<universes, history, raised, data, result, returned, log>>

\* a handler that logs only when there is something to report
OnSecuritiesChangedIfAny ==
    /\ phase = "notify"
    /\ log' = IF changes = NoChanges THEN log ELSE Append(log, ToString(changes))
    /\ returned' = "None"
    /\ phase' = "notified"
    /\ UNCHANGED <<universes, history, raised, data, result, earlier, changes>>

OnSecuritiesChanged ==
    /\ phase = "notify"
    /\ log' = Append(log, ToString(changes))
    /\ returned' = "None"
    /\ phase' = "notified"
    /\ UNCHANGED <<universes, history, raised, data, result, earlier, changes>>

TimeStep == NewTimeStep(StepSnapshots)

Next ==
    \/ Initialize
    \/ TimeStep
    \/ CallUniverseSelectionFilter
    \/ SecuritiesChanged
    \/ OnSecuritiesChanged

Spec == Init /\ [][Next]_vars

----------------------------------------------------------------------------
(* The filter on its own: an initialized algorithm about to filter a snapshot *)

InitFilter ==
    /\ phase = "select"
    /\ universes = 1
    /\ history = [i \in 1..ExpectedHistoryCount |-> MinHistorySize]
    /\ raised = ""
    /\ data \in Snapshots(MaxLen, MaxVar)
    /\ result = <<>>
    /\ earlier = NoInvocation
    /\ changes = NoChanges
    /\ returned = "None"
    /\ log = <<>>

NextFilter == CallUniverseSelectionFilter

SpecFilter == InitFilter /\ [][NextFilter]_vars

----------------------------------------------------------------------------
(* Properties of UniverseSelectionFilter, stated on the snapshot and the    *)
(* returned list alone                                                      *)

Selected == phase = "selected"

Positions == 1..Len(data)
Ranks == 1..Len(result)

IsSelected(i) == \E k \in Ranks : result[k] = data[i].Symbol

\* the rank of the selected record at position i
RankOf(i) == CHOOSE k \in Ranks : result[k] = data[i].Symbol

\* the position of the record selected at rank k
PositionAt(k) == CHOOSE i \in Positions : data[i].Symbol = result[k]

MeetsThresholds(i) ==
    data[i].Volume >= MinVolume /\ data[i].VolumeInUsd > MinVolumeInUsd

Passing == { i \in Positions : MeetsThresholds(i) }

\* C1: a symbol is in the result only if its candidate has volume >= 100 and
\* volumeInUsd > 10000; a candidate with volumeInUsd exactly 10000 is never
\* selected.
C1_OnlyPassingSelected ==
    Selected =>
        /\ \A k \in Ranks : \E i \in Positions :
              data[i].Symbol = result[k] /\ MeetsThresholds(i)
        /\ \A i \in Positions :
              (data[i].Volume < MinVolume \/ data[i].VolumeInUsd <= MinVolumeInUsd)
                  => ~IsSelected(i)

\* a candidate with volume exactly 100 is selected while one with volumeInUsd
\* exactly 10000 and one with volume 99 are passed over
C1_Witness ==
    /\ Selected
    /\ \E i \in Positions : data[i].Volume = MinVolume /\ IsSelected(i)
    /\ \E i \in Positions : data[i].VolumeInUsd = MinVolumeInUsd /\ ~IsSelected(i)
    /\ \E i \in Positions : data[i].Volume = MinVolume - 1 /\ ~IsSelected(i)

\* C2: the result has length at most 10, whatever the length of the input.
C2_AtMostTen == Selected => Len(result) <= TopCount

\* more than ten candidates pass and ten are returned
C2_Witness ==
    /\ Selected
    /\ Cardinality(Passing) > TopCount
    /\ Len(result) = TopCount

\* C3: the result is ordered by volumeInUsd descending.
C3_Descending ==
    Selected =>
        \A a, b \in Ranks :
            a < b => data[PositionAt(a)].VolumeInUsd >= data[PositionAt(b)].VolumeInUsd

\* two selected candidates come out in the opposite order of the input
C3_Witness ==
    /\ Selected
    /\ \E i, j \in Positions :
          /\ i < j /\ IsSelected(i) /\ IsSelected(j)
          /\ data[i].VolumeInUsd < data[j].VolumeInUsd
          /\ RankOf(j) < RankOf(i)

\* C4: two selected candidates with equal volumeInUsd keep the relative order
\* they had in the input.
C4_StableTies ==
    Selected =>
        \A i, j \in Positions :
            (i < j /\ data[i].VolumeInUsd = data[j].VolumeInUsd
                /\ IsSelected(i) /\ IsSelected(j))
                => RankOf(i) < RankOf(j)

\* two tied candidates are selected behind a larger one that followed them in
\* the input, their symbols running against their positions
C4_Witness ==
    /\ Selected
    /\ \E i, j, l \in Positions :
          /\ i < j /\ j < l
          /\ data[i].VolumeInUsd = data[j].VolumeInUsd
          /\ data[j].VolumeInUsd < data[l].VolumeInUsd
          /\ data[i].Symbol > data[j].Symbol
          /\ IsSelected(i) /\ IsSelected(j) /\ IsSelected(l)
          /\ RankOf(l) < RankOf(i) /\ RankOf(i) < RankOf(j)

\* the snapshot with the records at positions i and j exchanged
Swapped(i, j) ==
    [p \in Positions |-> IF p = i THEN data[j] ELSE IF p = j THEN data[i] ELSE data[p]]

Comparable(i, j) ==
    /\ i < j
    /\ data[i].VolumeInUsd = data[j].VolumeInUsd
    /\ MeetsThresholds(i) = MeetsThresholds(j)

Holds(r, s) == \E k \in 1..Len(r) : r[k] = s
Before(r, s, t) == \E k, l \in 1..Len(r) : k < l /\ r[k] = s /\ r[l] = t

\* C5 as stated: exchanging the input positions of two candidates with equal
\* volumeInUsd and equal pass/fail status leaves their relative order in the
\* output as it was.
C5_SwapKeepsOrder ==
    Selected =>
        \A i, j \in Positions :
            Comparable(i, j) =>
                LET other == UniverseSelectionFilter(Swapped(i, j))
                    s == data[i].Symbol
                    t == data[j].Symbol
                IN  (Holds(result, s) /\ Holds(result, t) /\ Holds(other, s) /\ Holds(other, t))
                        => (Before(result, s, t) <=> Before(other, s, t))

\* C5 amended: exchanging the input positions of two such candidates exchanges
\* their two symbols in the output and changes nothing else, so that of two
\* selected ones the candidate placed earlier in the input comes first.
C5_SwapExchanges ==
    Selected =>
        \A i, j \in Positions :
            Comparable(i, j) =>
                LET other == UniverseSelectionFilter(Swapped(i, j))
                    s == data[i].Symbol
                    t == data[j].Symbol
                IN  /\ Len(other) = Len(result)
                    /\ \A k \in Ranks :
                          other[k] = IF result[k] = s THEN t
                                     ELSE IF result[k] = t THEN s
                                     ELSE result[k]
                    /\ (Holds(result, s) /\ Holds(result, t))
                          => (Before(result, s, t) /\ Before(other, t, s))

\* two tied candidates are both selected, and of two tied passing candidates
\* the cut at ten keeps only the earlier
C5_Witness ==
    /\ Selected
    /\ \E i, j \in Positions : Comparable(i, j) /\ IsSelected(i) /\ IsSelected(j)
    /\ \E i, j \in Positions :
          Comparable(i, j) /\ MeetsThresholds(i) /\ IsSelected(i) /\ ~IsSelected(j)

\* C6: the filter returns the empty list, raising nothing, when the input is
\* empty and when no candidate of a non-empty input passes.
C6_EmptyWhenNonePass ==
    (Selected /\ Passing = {}) =>
        result = <<>> /\ returned = "list" /\ raised = ""

\* a non-empty snapshot without a passing candidate has been filtered
C6_Witness ==
    /\ Selected
    /\ Len(data) > 1
    /\ Passing = {}
    /\ result = <<>>
    /\ returned = "list"

\* C9: the result has length min(10, number of passing candidates), no passing
\* candidate left out has a larger volumeInUsd than a selected one, and every
\* passing candidate is selected when fewer than 11 pass.
C9_ExactlyTheTop ==
    Selected =>
        /\ Len(result) = IF Cardinality(Passing) < TopCount
                         THEN Cardinality(Passing) ELSE TopCount
        /\ \A k \in Ranks : \E i \in Passing : data[i].Symbol = result[k]
        /\ \A i \in Passing : \A j \in Passing :
              (~IsSelected(i) /\ IsSelected(j))
                  => data[i].VolumeInUsd <= data[j].VolumeInUsd
        /\ Cardinality(Passing) < TopCount + 1 => \A i \in Passing : IsSelected(i)

\* eleven candidates pass, the largest being the last of the input: it is
\* selected and an earlier smaller one is left out
C9_Witness ==
    /\ Selected
    /\ Cardinality(Passing) > TopCount
    /\ \E i \in Passing :
          /\ i > TopCount
          /\ IsSelected(i)
          /\ RankOf(i) = 1
    /\ \E i \in Passing : i <= TopCount /\ ~IsSelected(i)

----------------------------------------------------------------------------
(* Properties of the whole run *)

FilterReturns == phase = "select" /\ phase' = "selected"

\* C7: an invocation of the filter returns what an earlier invocation returned
\* for the same snapshot, whatever was filtered or logged in between, and it
\* changes neither its snapshot nor the state of the algorithm.
C7_PureFilter ==
    [][FilterReturns =>
          /\ (earlier.called /\ earlier.data = data) => result' = earlier.result
          /\ data' = data
          /\ UNCHANGED <<universes, history, raised, earlier, changes, log>>]_vars

\* a snapshot with a non-empty selection has been filtered a second time, a log
\* entry having been written since the first
C7_Witness ==
    /\ Selected
    /\ earlier.called
    /\ earlier.data = data
    /\ earlier.logged < Len(log)
    /\ result # <<>>
    /\ result = earlier.result

HandlerReturns == phase = "notify" /\ phase' = "notified"

\* C8: an invocation of OnSecuritiesChanged appends exactly one log entry, the
\* text of the descriptor it received, returns no value and changes neither
\* the algorithm's state nor the descriptor.
C8_LogsOnce ==
    [][HandlerReturns =>
          /\ Len(log') = Len(log) + 1
          /\ SubSeq(log', 1, Len(log)) = log
          /\ log'[Len(log')] = ToString(changes)
          /\ returned' = "None"
          /\ UNCHANGED <<universes, history, raised, data, result, earlier, changes>>]_vars

\* the handler has been invoked twice, once without and once with changes
C8_Witness ==
    /\ phase = "notified"
    /\ Len(log) > 1
    /\ log[1] = <<"SecurityChanges:", "None">>
    /\ log[2] = <<"SecurityChanges:", "Added:", "BTCUSD", "ETHUSD", "Removed:", "LTCUSD">>
    /\ changes.Removed = <<"LTCUSD">>

HistoryAsExpected ==
    /\ Len(history) = ExpectedHistoryCount
    /\ \A i \in 1..Len(history) : history[i] >= MinHistorySize

\* C10: Initialize completes without error exactly when the history has 2
\* snapshots of at least 100 records each; otherwise it raises ValueError, for
\* the count before any size, and the universe stays registered.
C10_InitializeChecks ==
    phase # "new" =>
        /\ (raised = "" /\ returned # "ValueError" /\ phase # "failed") <=> HistoryAsExpected
        /\ ~HistoryAsExpected => (phase = "failed" /\ returned = "ValueError")
        /\ Len(history) # ExpectedHistoryCount => raised = "Unexpected history count"
        /\ (Len(history) = ExpectedHistoryCount /\ ~HistoryAsExpected)
              => raised = "Unexpected historical universe data"
        /\ universes = 1

\* a history of three snapshots, the first too small, is rejected for its count
C10_Witness ==
    /\ phase = "failed"
    /\ Len(history) > ExpectedHistoryCount
    /\ history[1] < MinHistorySize
    /\ raised = "Unexpected history count"
    /\ returned = "ValueError"
    /\ universes = 1

====
